---- MODULE Spec2Model ----
(***************************************************************************)
(* PowerFlow dashboard (src/src/app.py): the flow reconstructor load_data, *)
(* the temporal aggregator aggregate, and the script steps that call them. *)
(*                                                                         *)
(* A table (pandas DataFrame) is [cols, rows]: a set of column names and a *)
(* sequence of rows, each row a function from cols to cells.  A cell is a  *)
(* record [k, v]: k its kind, v an integer payload.                        *)
(*   "na"     a missing value (empty CSV field, NaN)                       *)
(*   "num"    a number, v in tenths (v = 1000 is 100.0 MWh)                *)
(*   "txt"    a CSV field that is neither a number nor a timestamp         *)
(*   "dtstr"  a CSV field holding a well-formed timestamp, v its instant   *)
(*   "ts"     a datetime64 value, v in ticks of 30 minutes since           *)
(*            2022-12-26 00:00 (a Monday)                                  *)
(*   "nat"    the missing timestamp NaT                                    *)
(*   "date"   a calendar date, v the day number since 2022-12-26           *)
(*   "int"    an integer (year, day of month, hour)                        *)
(*   "period" a year-month label, v = 100 * year + month ("2022-12")       *)
(***************************************************************************)
EXTENDS Integers, Sequences, FiniteSets, TLC

VARIABLES
  raw,    \* the table in the CSV file
  cache,  \* st.cache_data's entry for load_data(path)
  pc,     \* where the script is
  df,     \* the outcome of load_data in this run
  df_f,   \* the filtered table
  arg,    \* the table passed to aggregate
  freq_arg, \* the granularity passed to aggregate
  agg,    \* the table aggregate returned
  monthly, \* the table aggregate(df_f, "M") returned
  base,   \* the copy the analytics tab works on
  built,  \* how many times the body of load_data returned a table
  kpi,    \* the value passed to format_mwh
  shown   \* the text format_mwh returned

vars == <<raw, cache, pc, df, df_f, arg, freq_arg, agg, monthly, base, built,
          kpi, shown>>

-----------------------------------------------------------------------------
(* Bounds of the model. *)

\* The most rows a raw table of the time-rich family has.
MaxRows == 2

\* The count of builds stops here.
MaxBuilds == 2

-----------------------------------------------------------------------------
(* Cells. *)

NA == [k |-> "na", v |-> 0]
Txt == [k |-> "txt", v |-> 0]
NaT == [k |-> "nat", v |-> 0]
Num(n) == [k |-> "num", v |-> n]
DtStr(t) == [k |-> "dtstr", v |-> t]
Ts(t) == [k |-> "ts", v |-> t]
DateOf(d) == [k |-> "date", v |-> d]
IntCell(n) == [k |-> "int", v |-> n]
Period(p) == [k |-> "period", v |-> p]

Abs(n) == IF n < 0 THEN -n ELSE n

-----------------------------------------------------------------------------
(* The calendar: what pandas' .dt accessors return for a datetime64 value. *)
(* Day 0 is Monday 2022-12-26; days 0..5 are in December 2022, days 6..36  *)
(* in January 2023 (day 5 is Saturday 2022-12-31, day 6 Sunday 2023-01-01, *)
(* day 7 Monday 2023-01-02, day 36 Tuesday 2023-01-31).                    *)

TicksPerHour == 2
HoursPerDay == 24
DaysPerWeek == 7
TicksPerDay == TicksPerHour * HoursPerDay

\* The last day of December 2022 and of January 2023, as day numbers, and
\* the day of the month of day 0.
DecemberEnd == 5
JanuaryEnd == 36
FirstDayOfMonth == 26
FirstYear == 2022

Tick(d, h, half) == d * TicksPerDay + h * TicksPerHour + half

DayOfTick(t) == t \div TicksPerDay
HourOfTick(t) == (t % TicksPerDay) \div TicksPerHour
YearOfDay(d) == IF d <= DecemberEnd THEN FirstYear ELSE FirstYear + 1
MonthOfDay(d) == IF d <= DecemberEnd THEN 12 ELSE 1
DayOfMonth(d) == IF d <= DecemberEnd THEN d + FirstDayOfMonth ELSE d - DecemberEnd
PeriodOfDay(d) == 100 * YearOfDay(d) + MonthOfDay(d)

-----------------------------------------------------------------------------
(* Column names. *)

DatetimeCol == "datetime"
DateCol == "Date"
\* "Tranche horaire du programme d'échange" (written without the accent).
HourSlotCol == "Tranche horaire du programme d'echange"

PartnerCodes == {"GBR", "CHE", "ITA", "ESP", "CWE/Core"}

\* code -> <<export column, import column>>
partner_configs ==
  [code \in PartnerCodes |->
     CASE code = "GBR" -> <<"FR vers GB (MWh)", "GB vers FR (MWh)">>
       [] code = "CHE" -> <<"FR vers CH (MWh)", "CH vers FR (MWh)">>
       [] code = "ITA" -> <<"FR vers IT (MWh)", "IT vers FR (MWh)">>
       [] code = "ESP" -> <<"FR vers ES (MWh)", "ES vers FR (MWh)">>
       [] code = "CWE/Core" -> <<"FR->CWE/Core", "CWE/Core->FR">>]

ExpCol(code) == partner_configs[code][1]
ImpCol(code) == partner_configs[code][2]

\* The endings a column name of the model can have after one of the prefixes
\* the code tests with str.startswith.
NameTails ==
  PartnerCodes \cup {"total"}
    \cup {" GB (MWh)", " CH (MWh)", " IT (MWh)", " ES (MWh)", " FR (MWh)"}
    \cup {"/Core", ""}

\* c.startswith(p)
StartsWith(c, p) == \E s \in NameTails : c = p \o s

NetPrefix == "net_"

-----------------------------------------------------------------------------
(* Tables. *)

NoTable == [cols |-> {}, rows |-> <<>>]

NRows(T) == Len(T.rows)

\* df[c] = col, col a sequence of cells, one per row (adds or overwrites c).
SetCol(T, c, col) ==
  [cols |-> T.cols \cup {c},
   rows |-> [i \in 1..Len(T.rows) |->
               [x \in T.cols \cup {c} |-> IF x = c THEN col[i] ELSE T.rows[i][x]]]]

\* df.drop(columns=S)
DropCols(T, S) ==
  [cols |-> T.cols \ S,
   rows |-> [i \in 1..Len(T.rows) |-> [x \in T.cols \ S |-> T.rows[i][x]]]]

\* df[c], as a sequence of cells
Column(T, c) == [i \in 1..Len(T.rows) |-> T.rows[i][c]]

\* An object column: pandas reads a column holding any non-numeric field as
\* strings, and numeric operations on it raise.
IsObjectCol(T, c) == \E i \in 1..Len(T.rows) : T.rows[i][c].k = "txt"

RECURSIVE SumCells(_, _)
\* The sum of the numbers row holds in the columns S.
SumCells(row, S) ==
  IF S = {} THEN 0
  ELSE LET c == CHOOSE x \in S : TRUE
       IN  row[c].v + SumCells(row, S \ {c})

-----------------------------------------------------------------------------
(* load_data: timestamp resolution. *)

\* pd.to_datetime(x, errors="coerce") of one field
to_datetime(cell) == IF cell.k = "dtstr" THEN Ts(cell.v) ELSE NaT

HourMin == 0
HourMax == 23

\* .astype(float).fillna(0) of one numeric or missing field, in tenths
FillHour(cell) == IF cell.k = "na" THEN 0 ELSE cell.v

\* TruncToInt rounding to the nearest integer instead.
RoundToInt(tenths) ==
  IF tenths >= 0 THEN (tenths + 5) \div 10 ELSE -((5 - tenths) \div 10)

\* .astype(int): truncation toward zero of a value in tenths
TruncToInt(tenths) ==
  IF tenths >= 0 THEN tenths \div 10 ELSE -((-tenths) \div 10)

\* Clip left out.
ClipSkipped(h) == h

\* .clip(lower=0, upper=23)
Clip(h) == IF h < HourMin THEN HourMin ELSE IF h > HourMax THEN HourMax ELSE h

\* The hour of one hour-slot field: astype(float).fillna(0).astype(int).clip
HourOfSlot(cell) == Clip(TruncToInt(FillHour(cell)))

\* AddHours leaving the hour out: the date alone.
AddHoursDateOnly(date, h) == date

\* df["Date"] + pd.to_timedelta(df["hour"], unit="h") of one row
AddHours(date, h) ==
  IF date.k = "ts" THEN Ts(date.v + h * TicksPerHour) ELSE NaT

\* Schema testing the Date + hour-slot pair before the datetime column.
SchemaDateFirst(T) ==
  IF DateCol \in T.cols /\ HourSlotCol \in T.cols THEN "date_hour"
  ELSE IF DatetimeCol \in T.cols THEN "datetime"
  ELSE "none"

\* Which timestamp schema the raw table has.
Schema(T) ==
  IF DatetimeCol \in T.cols THEN "datetime"
  ELSE IF DateCol \in T.cols /\ HourSlotCol \in T.cols THEN "date_hour"
  ELSE "none"

\* The table after the datetime branch: the column parsed in place.
ParseCombined(T) ==
  SetCol(T, DatetimeCol,
         [i \in 1..NRows(T) |-> to_datetime(T.rows[i][DatetimeCol])])

\* The table after the Date + hour-slot branch: Date parsed, hour and
\* datetime added.
ParseDateHour(T) ==
  LET dates == [i \in 1..NRows(T) |-> to_datetime(T.rows[i][DateCol])]
      hours == [i \in 1..NRows(T) |-> HourOfSlot(T.rows[i][HourSlotCol])]
      T1 == SetCol(T, DateCol, dates)
      T2 == SetCol(T1, "hour", [i \in 1..NRows(T) |-> IntCell(hours[i])])
  IN  SetCol(T2, DatetimeCol,
             [i \in 1..NRows(T) |-> AddHours(dates[i], hours[i])])

\* df["datetime"].isna().all()
AllNaT(T) == \A i \in 1..NRows(T) : T.rows[i][DatetimeCol].k = "nat"

-----------------------------------------------------------------------------
(* load_data: net flows. *)

\* .fillna(0.0) of one flow value
FillFlow(cell) == IF cell.k = "na" THEN 0 ELSE cell.v

\* NetValue without the .abs(): raw signs kept.
NetValueSigned(exp, imp) == FillFlow(exp) - FillFlow(imp)

\* export_mwh - import_mwh of one row
NetValue(exp, imp) == Abs(FillFlow(exp)) - Abs(FillFlow(imp))

\* the columns whose name starts with net_
NetCols(T) == {c \in T.cols : StartsWith(c, NetPrefix)}

\* DropOldNet left out: the old net_ columns stay.
DropOldNetSkipped(T) == T

\* DropOldNet dropping net_total alone.
DropOldNetTotalOnly(T) == DropCols(T, {"net_total"} \cap T.cols)

\* df = df.drop(columns=old_net_cols)
DropOldNet(T) == DropCols(T, NetCols(T))

\* The partners whose export and import columns are both in the table.
CompletePartners(T) ==
  {code \in PartnerCodes : ExpCol(code) \in T.cols /\ ImpCol(code) \in T.cols}

\* abs() raises on an object column.
FlowTypeError(T) ==
  \E code \in CompletePartners(T) :
     IsObjectCol(T, ExpCol(code)) \/ IsObjectCol(T, ImpCol(code))

\* AddNetCols giving every configured partner a column, zero-filled for a
\* partner lacking a raw column.
AddNetColsZeroFilled(T) ==
  LET done == CompletePartners(T)
      new == {NetPrefix \o code : code \in PartnerCodes}
      codeOf(c) == CHOOSE code \in PartnerCodes : c = NetPrefix \o code
  IN  [cols |-> T.cols \cup new,
       rows |-> [i \in 1..NRows(T) |->
                   [x \in T.cols \cup new |->
                      IF x \in new
                      THEN IF codeOf(x) \in done
                           THEN Num(NetValue(T.rows[i][ExpCol(codeOf(x))],
                                             T.rows[i][ImpCol(codeOf(x))]))
                           ELSE Num(0)
                      ELSE T.rows[i][x]]]]

\* The loop over partner_configs: one net_<code> column per complete partner.
AddNetCols(T) ==
  LET done == CompletePartners(T)
      new == {NetPrefix \o code : code \in done}
      codeOf(c) == CHOOSE code \in done : c = NetPrefix \o code
  IN  [cols |-> T.cols \cup new,
       rows |-> [i \in 1..NRows(T) |->
                   [x \in T.cols \cup new |->
                      IF x \in new
                      THEN Num(NetValue(T.rows[i][ExpCol(codeOf(x))],
                                        T.rows[i][ImpCol(codeOf(x))]))
                      ELSE T.rows[i][x]]]]

\* AddNetTotal recomputing the total from the raw flow columns, signs kept.
AddNetTotalFromRaw(T) ==
  SetCol(T, "net_total",
         [i \in 1..NRows(T) |->
            Num(SumCells([c \in {NetPrefix \o code : code \in CompletePartners(T)} |->
                            Num(FillFlow(T.rows[i][ExpCol(CHOOSE code \in CompletePartners(T) : c = NetPrefix \o code)])
                                  - FillFlow(T.rows[i][ImpCol(CHOOSE code \in CompletePartners(T) : c = NetPrefix \o code)]))],
                         {NetPrefix \o code : code \in CompletePartners(T)}))])

\* df["net_total"] = df[net_cols].sum(axis=1)
AddNetTotal(T) ==
  LET net_cols == NetCols(T)
  IN  SetCol(T, "net_total",
             [i \in 1..NRows(T) |-> Num(SumCells(T.rows[i], net_cols))])

-----------------------------------------------------------------------------
(* load_data: calendar breakdown. *)

DateField(ts) == IF ts.k = "ts" THEN DateOf(DayOfTick(ts.v)) ELSE NaT
YearField(ts) == IF ts.k = "ts" THEN IntCell(YearOfDay(DayOfTick(ts.v))) ELSE NA
MonthField(ts) == IF ts.k = "ts" THEN Period(PeriodOfDay(DayOfTick(ts.v))) ELSE NaT
DayField(ts) == IF ts.k = "ts" THEN IntCell(DayOfMonth(DayOfTick(ts.v))) ELSE NA
HourField(ts) == IF ts.k = "ts" THEN IntCell(HourOfTick(ts.v)) ELSE NA

Enrich(T) ==
  LET ts == Column(T, DatetimeCol)
      n == NRows(T)
      T1 == SetCol(T, "date", [i \in 1..n |-> DateField(ts[i])])
      T2 == SetCol(T1, "year", [i \in 1..n |-> YearField(ts[i])])
      T3 == SetCol(T2, "month", [i \in 1..n |-> MonthField(ts[i])])
      T4 == SetCol(T3, "day", [i \in 1..n |-> DayField(ts[i])])
  IN  SetCol(T4, "hour", [i \in 1..n |-> HourField(ts[i])])

-----------------------------------------------------------------------------
(* load_data, whole: the outcome for the raw table R read from the file. *)

Failure(kind) == [status |-> kind, table |-> NoTable]

load_data(R) ==
  IF Schema(R) = "none" THEN Failure("SchemaError")
  ELSE IF Schema(R) = "date_hour" /\ IsObjectCol(R, HourSlotCol)
  THEN Failure("ValueError")
  ELSE
    LET parsed == IF Schema(R) = "datetime" THEN ParseCombined(R)
                  ELSE ParseDateHour(R)
    IN  IF AllNaT(parsed) THEN Failure("TimestampError")
        ELSE
          LET clean == DropOldNet(parsed)
          IN  IF FlowTypeError(clean) THEN Failure("TypeError")
              ELSE
                LET nets == AddNetCols(clean)
                IN  IF NetCols(nets) = {} THEN Failure("NoFlowData")
                    ELSE [status |-> "ok",
                          table |-> Enrich(AddNetTotal(nets))]

-----------------------------------------------------------------------------
(* The date-range filter of the script. *)

\* The days of the rows that have a timestamp.
DaysOf(T) ==
  {T.rows[i]["date"].v : i \in {j \in 1..NRows(T) : T.rows[j]["date"].k = "date"}}

MinDay(T) == CHOOSE d \in DaysOf(T) : \A e \in DaysOf(T) : d <= e
MaxDay(T) == CHOOSE d \in DaysOf(T) : \A e \in DaysOf(T) : e <= d

\* (df["date"] >= lo) & (df["date"] <= hi): a missing date compares False.
InRange(row, lo, hi) ==
  row["date"].k = "date" /\ row["date"].v >= lo /\ row["date"].v <= hi

RECURSIVE SelectRows(_, _, _)
SelectRows(rows, lo, hi) ==
  IF rows = <<>> THEN <<>>
  ELSE LET rest == SelectRows(Tail(rows), lo, hi)
       IN  IF InRange(Head(rows), lo, hi) THEN <<Head(rows)>> \o rest ELSE rest

\* df.loc[mask].copy()
FilterRange(T, lo, hi) == [cols |-> T.cols, rows |-> SelectRows(T.rows, lo, hi)]

-----------------------------------------------------------------------------
(* aggregate. *)

Freqs == {"H", "D", "W", "M"}

AggPrefixes ==
  {"FR vers", "GB vers", "CH vers", "IT vers", "ES vers", "Export France",
   "Import France", "net_", "FR->CWE", "CWE/Core->FR"}

\* The columns aggregate sums.
AggCols(T) == {c \in T.cols : \E p \in AggPrefixes : StartsWith(c, p)}

\* The month-end day of the month of day d.
MonthEndOfDay(d) == IF d <= DecemberEnd THEN DecemberEnd ELSE JanuaryEnd

\* The Sunday of the Monday-to-Sunday week of day d.
WeekEndOfDay(d) == DaysPerWeek * (d \div DaysPerWeek) + (DaysPerWeek - 1)

\* BucketLabel labelling every bucket by its start (W by the week's Monday,
\* M by the month's first day).
BucketLabelStart(t, freq) ==
  CASE freq = "H" -> (t \div TicksPerHour) * TicksPerHour
    [] freq = "D" -> DayOfTick(t) * TicksPerDay
    [] freq = "W" -> (WeekEndOfDay(DayOfTick(t)) - (DaysPerWeek - 1)) * TicksPerDay
    [] freq = "M" -> (DayOfTick(t) - DayOfMonth(DayOfTick(t)) + 1) * TicksPerDay

\* The label resample(freq) gives the bucket of instant t: the start of the
\* hour or day for H and D; for W and M (closed and labelled on the right)
\* midnight of the week's Sunday and of the month's last day.
BucketLabel(t, freq) ==
  CASE freq = "H" -> (t \div TicksPerHour) * TicksPerHour
    [] freq = "D" -> DayOfTick(t) * TicksPerDay
    [] freq = "W" -> WeekEndOfDay(DayOfTick(t)) * TicksPerDay
    [] freq = "M" -> MonthEndOfDay(DayOfTick(t)) * TicksPerDay

\* The label after label l.
NextLabel(l, freq) ==
  CASE freq = "H" -> l + TicksPerHour
    [] freq = "D" -> l + TicksPerDay
    [] freq = "W" -> l + DaysPerWeek * TicksPerDay
    [] freq = "M" -> IF DayOfTick(l) < DecemberEnd THEN DecemberEnd * TicksPerDay
                     ELSE IF DayOfTick(l) < JanuaryEnd THEN JanuaryEnd * TicksPerDay
                     ELSE l + 28 * TicksPerDay

RECURSIVE LabelsFrom(_, _, _)
\* The labels from l to last, in order: resample keeps the empty buckets.
LabelsFrom(l, last, freq) ==
  IF l > last THEN <<>>
  ELSE <<l>> \o LabelsFrom(NextLabel(l, freq), last, freq)

\* Timed taking every row, a row without a timestamp at the instant 0.
TimedAll(T) == 1..NRows(T)

\* The rows resample places in a bucket: those with a timestamp.
Timed(T) == {i \in 1..NRows(T) : T.rows[i][DatetimeCol].k = "ts"}

\* The rows of T in the bucket labelled l.
InBucket(T, l, freq) ==
  {i \in Timed(T) : BucketLabel(T.rows[i][DatetimeCol].v, freq) = l}

RECURSIVE LastOfRows(_, _, _)
\* SumRows taking one row's value for the bucket ("last" for "sum").
LastOfRows(T, c, I) ==
  IF I = {} THEN 0
  ELSE LET i == CHOOSE x \in I : \A y \in I : y <= x
       IN  IF T.rows[i][c].k = "num" THEN T.rows[i][c].v ELSE 0

RECURSIVE SumRows(_, _, _)
\* The sum of column c over the rows I of T (a missing value adds nothing).
SumRows(T, c, I) ==
  IF I = {} THEN 0
  ELSE LET i == CHOOSE x \in I : TRUE
       IN  (IF T.rows[i][c].k = "num" THEN T.rows[i][c].v ELSE 0)
             + SumRows(T, c, I \ {i})

\* "sum" of column c over one bucket; the sum of an object column is itself
\* no number.
BucketSum(T, c, I) ==
  IF IsObjectCol(T, c) THEN Txt ELSE Num(SumRows(T, c, I))

aggregate(T, freq) ==
  LET labels == {BucketLabel(T.rows[i][DatetimeCol].v, freq) : i \in Timed(T)}
      first == CHOOSE l \in labels : \A m \in labels : l <= m
      last == CHOOSE l \in labels : \A m \in labels : m <= l
      seq == IF labels = {} THEN <<>> ELSE LabelsFrom(first, last, freq)
      sums == AggCols(T)
      out == sums \cup {DatetimeCol, "date", "month", "year"}
  IN  [cols |-> out,
       rows |-> [n \in 1..Len(seq) |->
                   [x \in out |->
                      CASE x = DatetimeCol -> Ts(seq[n])
                        [] x = "date" -> DateField(Ts(seq[n]))
                        [] x = "month" -> MonthField(Ts(seq[n]))
                        [] x = "year" -> YearField(Ts(seq[n]))
                        [] OTHER -> BucketSum(T, x, InBucket(T, seq[n], freq))]]]

-----------------------------------------------------------------------------
(* The raw tables the file can hold (the inputs of the model). *)

GBe == ExpCol("GBR")
GBi == ImpCol("GBR")
CWe == ExpCol("CWE/Core")
CWi == ImpCol("CWE/Core")

\* Saturday 2022-12-31 23:30, Sunday 2023-01-01 00:00 and 23:00, Monday
\* 2023-01-02 00:00: a month, a year and a week turn between them.
Instants == {Tick(5, 23, 1), Tick(6, 0, 0), Tick(6, 23, 0), Tick(7, 0, 0)}

DatetimeFields == {DtStr(t) : t \in Instants} \cup {Txt}
DateFields == {DtStr(Tick(6, 0, 0)), Txt}
\* missing, -1.0, 5.7, 23.0, 24.0 and a non-numeric field
HourSlotFields == {NA, Num(-10), Num(57), Num(230), Num(240), Txt}
FlowFields == {NA, Num(1000), Num(-400), Txt}
\* <<export, import>> of one row
FlowPairs == {<<Num(1000), Num(-400)>>, <<Num(-300), NA>>}
OldNetCols == {"net_GBR", "net_total"}
OldNetField == Num(70)

RECURSIVE RowsOver(_, _)
\* All the rows over the columns cols with, in each column c, a field of
\* vals[c].
RowsOver(cols, vals) ==
  IF cols = {} THEN {<<>>}
  ELSE LET c == CHOOSE x \in cols : TRUE
       IN  {[x \in cols |-> IF x = c THEN v ELSE r[x]] :
              v \in vals[c], r \in RowsOver(cols \ {c}, vals)}

\* All the tables of n rows drawn from rows.
TablesOf(cols, rows, n) == {[cols |-> cols, rows |-> r] : r \in [1..n -> rows]}

\* Time-rich tables: either timestamp schema, the GBR flows, 0..MaxRows rows.
CombinedRows ==
  {[c \in {DatetimeCol, GBe, GBi} |->
      CASE c = DatetimeCol -> d [] c = GBe -> p[1] [] OTHER -> p[2]] :
     d \in DatetimeFields, p \in FlowPairs}

DateHourRows ==
  {[c \in {DateCol, HourSlotCol, GBe, GBi} |->
      CASE c = DateCol -> d [] c = HourSlotCol -> h
        [] c = GBe -> p[1] [] OTHER -> p[2]] :
     d \in DateFields, h \in HourSlotFields, p \in FlowPairs}

TimeTables ==
  UNION {TablesOf({DatetimeCol, GBe, GBi}, CombinedRows, n)
           \cup TablesOf({DateCol, HourSlotCol, GBe, GBi}, DateHourRows, n) :
         n \in 0..MaxRows}

\* Flow-rich tables: one row with a timestamp, any of the GBR and CWE/Core
\* flow columns with any field in them, with or without old net_ columns.
FlowVals(cols) ==
  [c \in cols |->
     IF c = DatetimeCol THEN {DtStr(Tick(6, 0, 0))}
     ELSE IF c \in OldNetCols THEN {OldNetField}
     ELSE FlowFields]

FlowTables ==
  UNION {TablesOf({DatetimeCol} \cup F \cup N,
                  RowsOver({DatetimeCol} \cup F \cup N,
                           FlowVals({DatetimeCol} \cup F \cup N)), 1) :
         F \in SUBSET {GBe, GBi, CWe, CWi}, N \in {{}, OldNetCols}}

\* Partner tables: one row with a timestamp and any of the ten configured
\* flow columns, each with its own value.
AllFlowCols == {ExpCol(code) : code \in PartnerCodes}
                 \cup {ImpCol(code) : code \in PartnerCodes}

PartnerRank(code) ==
  CASE code = "GBR" -> 1 [] code = "CHE" -> 2 [] code = "ITA" -> 3
    [] code = "ESP" -> 4 [] code = "CWE/Core" -> 5

PartnerField(c) ==
  LET code == CHOOSE x \in PartnerCodes : c \in {ExpCol(x), ImpCol(x)}
  IN  IF c = ExpCol(code) THEN Num(1000 * PartnerRank(code))
      ELSE Num(-(30 * PartnerRank(code)))

PartnerTables ==
  {[cols |-> {DatetimeCol} \cup F,
    rows |-> <<[c \in {DatetimeCol} \cup F |->
                  IF c = DatetimeCol THEN DtStr(Tick(5, 23, 1))
                  ELSE PartnerField(c)]>>] :
     F \in SUBSET AllFlowCols}

\* Schema tables: any of the three timestamp columns, well-formed or not,
\* with none, one or both GBR flow columns, with or without old net_ columns,
\* of no row or one.
SchemaVals(cols) ==
  [c \in cols |->
     CASE c = DatetimeCol -> {DtStr(Tick(6, 23, 0)), Txt}
       [] c = DateCol -> DateFields
       [] c = HourSlotCol -> {Num(57), Txt}
       [] c \in OldNetCols -> {OldNetField}
       [] OTHER -> {Num(1000)}]

SchemaTables ==
  UNION {TablesOf(S \cup F \cup N, RowsOver(S \cup F \cup N, SchemaVals(S \cup F \cup N)), n) :
         S \in SUBSET {DatetimeCol, DateCol, HourSlotCol},
         F \in {{}, {GBe}, {GBe, GBi}}, N \in {{}, OldNetCols}, n \in 0..1}

RawTables == TimeTables \cup FlowTables \cup PartnerTables \cup SchemaTables

-----------------------------------------------------------------------------
(* The script: one run loads the table (through st.cache_data), filters it *)
(* to a date range and aggregates it; a widget change runs it again.       *)

(* format_mwh.  A text is modelled by its unit, its sign and its digits:    *)
(* value is the number shown without its decimal point, whole MWh or       *)
(* tenths of a GWh or TWh.                                                 *)

MWhPerGWh == 1000
MWhPerTWh == 1000000

\* a value of n tenths in MWh, as a count of tenths
Tenths(n) == 10 * n

\* the text of the missing value, an em dash
Placeholder == [unit |-> "none", neg |-> FALSE, value |-> 0]

NotShown == [unit |-> "unset", neg |-> FALSE, value |-> 0]

\* a / d rounded to the nearest integer, a tie to the even one, as the
\* float formats ,.0f and ,.1f round a quotient that is exact
RoundHalfEven(a, d) ==
  LET q == a \div d
      r == a % d
  IN  IF 2 * r > d \/ (2 * r = d /\ q % 2 = 1) THEN q + 1 ELSE q

\* format_mwh with the thresholds tested on x instead of abs(x).
format_mwh_signed(cell) ==
  IF cell.k # "num" THEN Placeholder
  ELSE IF cell.v >= Tenths(MWhPerTWh)
       THEN [unit |-> "TWh", neg |-> cell.v < 0,
             value |-> RoundHalfEven(Abs(cell.v), MWhPerTWh)]
       ELSE IF cell.v >= Tenths(MWhPerGWh)
            THEN [unit |-> "GWh", neg |-> cell.v < 0,
                  value |-> RoundHalfEven(Abs(cell.v), MWhPerGWh)]
            ELSE [unit |-> "MWh", neg |-> cell.v < 0,
                  value |-> RoundHalfEven(Abs(cell.v), 10)]

format_mwh(cell) ==
  IF cell.k # "num" THEN Placeholder
  ELSE LET abs_x == Abs(cell.v)
       IN  IF abs_x >= Tenths(MWhPerTWh)
           THEN [unit |-> "TWh", neg |-> cell.v < 0,
                 value |-> RoundHalfEven(abs_x, MWhPerTWh)]
           ELSE IF abs_x >= Tenths(MWhPerGWh)
                THEN [unit |-> "GWh", neg |-> cell.v < 0,
                      value |-> RoundHalfEven(abs_x, MWhPerGWh)]
                ELSE [unit |-> "MWh", neg |-> cell.v < 0,
                      value |-> RoundHalfEven(abs_x, 10)]

-----------------------------------------------------------------------------
(* The script. *)

NoResult == [status |-> "none", table |-> NoTable]

\* A cache that never has an entry (load_data without its decorator).
HitNever(c) == FALSE

\* st.cache_data has an entry for the call load_data(path).
Hit(c) == c.status = "ok"

\* The table passed to aggregate with its missing flow values filled in
\* place.
InputFilled(T) ==
  [cols |-> T.cols,
   rows |-> [i \in 1..Len(T.rows) |->
               [x \in T.cols |->
                  IF x \in AllFlowCols /\ T.rows[i][x].k = "na"
                  THEN Num(0) ELSE T.rows[i][x]]]]

\* The table passed to aggregate, after the call: set_index, resample, agg
\* and reset_index each return a new table and the date, month and year
\* fields are written on the result.
InputAfter(T) == T

StrCell(p) == [k |-> "str", v |-> p]

\* base = df_f.copy(), then the month_str, weekday and hour columns written
\* on base.
TabColumns(T) ==
  LET ts == Column(T, DatetimeCol)
      n == NRows(T)
      T1 == SetCol(T, "month_str",
                   [i \in 1..n |-> StrCell(PeriodOfDay(DayOfTick(ts[i].v)))])
      T2 == SetCol(T1, "weekday",
                   [i \in 1..n |-> IntCell(DayOfTick(ts[i].v) % DaysPerWeek)])
  IN  SetCol(T2, "hour", [i \in 1..n |-> HourField(ts[i])])

Init ==
  /\ raw \in RawTables
  /\ cache = NoResult
  /\ pc = "start"
  /\ df = NoResult
  /\ df_f = NoTable
  /\ arg = NoTable
  /\ freq_arg = "none"
  /\ agg = NoTable
  /\ monthly = NoTable
  /\ base = NoTable
  /\ built = 0
  /\ kpi = NA
  /\ shown = NotShown

\* df = load_data(path): the cached table if there is one, else the function
\* runs and a returned table is cached (an exception is not).
LoadData ==
  /\ pc = "start"
  /\ Hit(cache) \/ built < MaxBuilds
  /\ LET out == IF Hit(cache) THEN cache ELSE load_data(raw)
     IN  /\ df' = out
         /\ cache' = IF out.status = "ok" THEN out ELSE cache
         /\ built' = IF ~Hit(cache) /\ out.status = "ok"
                      THEN built + 1 ELSE built
         /\ pc' = IF out.status = "ok" THEN "loaded" ELSE "failed"
  /\ UNCHANGED <<raw, df_f, arg, freq_arg, agg, monthly, base, kpi, shown>>

\* df_f = df.loc[mask].copy(), the period chosen between the first and the
\* last day of the table.
Filter ==
  /\ pc = "loaded"
  /\ \E lo \in MinDay(df.table)..MaxDay(df.table) :
       \E hi \in lo..MaxDay(df.table) :
          df_f' = FilterRange(df.table, lo, hi)
  /\ pc' = "filtered"
  /\ UNCHANGED <<raw, cache, df, arg, freq_arg, agg, monthly, base, built,
               kpi, shown>>

\* The rest of the run: agg = aggregate(df_f, freq), then
\* monthly = aggregate(df_f, "M") on the table the first call left, then the
\* analytics tab on its copy; the net balance of the period is shown by
\* format_mwh.
Aggregate ==
  /\ pc = "filtered"
  /\ \E f \in Freqs :
       /\ arg' = df_f
       /\ freq_arg' = f
       /\ agg' = aggregate(df_f, f)
  /\ monthly' = aggregate(InputAfter(df_f), "M")
  /\ df_f' = InputAfter(InputAfter(df_f))
  /\ base' = TabColumns(df_f')
  /\ kpi' = Num(SumCells(Column(agg', "net_total"), 1..NRows(agg')))
  /\ shown' = format_mwh(kpi')
  /\ pc' = "aggregated"
  /\ UNCHANGED <<raw, cache, df, built>>

\* aggregate(table, freq) called on the canonical table itself (the function
\* takes any table load_data returns).
AggregateCanonical ==
  /\ pc = "loaded"
  /\ \E f \in Freqs :
       /\ arg' = df.table
       /\ freq_arg' = f
       /\ agg' = aggregate(df.table, f)
  /\ df' = [df EXCEPT !.table = InputAfter(df.table)]
  /\ pc' = "aggregated"
  /\ UNCHANGED <<raw, cache, df_f, monthly, base, built, kpi, shown>>

\* A widget change: the script runs again from the top; the cache stays.
Rerun ==
  /\ pc \in {"aggregated", "failed"}
  /\ pc' = "start"
  /\ df' = NoResult
  /\ df_f' = NoTable
  /\ arg' = NoTable
  /\ freq_arg' = "none"
  /\ agg' = NoTable
  /\ monthly' = NoTable
  /\ base' = NoTable
  /\ kpi' = NA
  /\ shown' = NotShown
  /\ UNCHANGED <<raw, cache, built>>

Next == LoadData \/ Filter \/ Aggregate \/ AggregateCanonical \/ Rerun

Spec == Init /\ [][Next]_vars

-----------------------------------------------------------------------------
(* format_mwh on its own: a value is drawn and formatted. *)

\* How far around each threshold the values are drawn, in tenths of a MWh.
Around == 15

Near(n) == (n - Around)..(n + Around)

\* missing, and both signs of the values near 0, 1 GWh and 1 TWh, of
\* 2 500.0 and 1 234 567.8 MWh
FormatInputs ==
  {NA} \cup {Num(s * n) : s \in {-1, 1},
                         n \in (0..Around) \cup Near(Tenths(MWhPerGWh))
                                \cup Near(Tenths(MWhPerTWh))
                                \cup {25000, 12345678}}

InitFormat ==
  /\ kpi \in FormatInputs
  /\ shown = NotShown
  /\ pc = "format"
  /\ raw = NoTable
  /\ cache = NoResult
  /\ df = NoResult
  /\ df_f = NoTable
  /\ arg = NoTable
  /\ freq_arg = "none"
  /\ agg = NoTable
  /\ monthly = NoTable
  /\ base = NoTable
  /\ built = 0

Format ==
  /\ pc = "format"
  /\ shown' = format_mwh(kpi)
  /\ pc' = "formatted"
  /\ UNCHANGED <<raw, cache, df, df_f, arg, freq_arg, agg, monthly, base,
                 built, kpi>>

NextFormat == Format

SpecFormat == InitFormat /\ [][NextFormat]_vars

-----------------------------------------------------------------------------
(* What the claims speak of, stated on the raw table and apart from the    *)
(* definitions of load_data above.                                         *)

Loaded == df.status = "ok"
Ran == df.status # "none"

NetName(code) == "net_" \o code

\* |x| of a raw flow field, a missing one counting as no flow.
Magnitude(cell) ==
  IF cell.k # "num" THEN 0 ELSE IF cell.v < 0 THEN 0 - cell.v ELSE cell.v

BothRawCols(code) ==
  partner_configs[code][1] \in raw.cols /\ partner_configs[code][2] \in raw.cols

RawRows == 1..Len(raw.rows)

\* The raw table without the columns named net_...
StripNet(R) ==
  LET keep == {c \in R.cols : \A s \in NameTails : c # "net_" \o s}
  IN  [cols |-> keep,
       rows |-> [i \in 1..Len(R.rows) |-> [c \in keep |-> R.rows[i][c]]]]

HasDatetime == "datetime" \in raw.cols
HasDateAndHour == "Date" \in raw.cols /\ HourSlotCol \in raw.cols

\* The hour an hour-slot field stands for: 0 when missing, else its integer
\* part brought into 0..23.
SlotHour(cell) ==
  IF cell.k # "num" THEN 0
  ELSE IF cell.v < 0 THEN 0
  ELSE IF cell.v >= 240 THEN 23
  ELSE cell.v \div 10

\* The instant raw row i stands for (NaT when its timestamp or date field
\* is not well-formed), under the schema the table has.
RawInstant(R, i) ==
  IF "datetime" \in R.cols
  THEN IF R.rows[i]["datetime"].k = "dtstr"
       THEN Ts(R.rows[i]["datetime"].v) ELSE NaT
  ELSE IF R.rows[i]["Date"].k = "dtstr"
       THEN Ts(R.rows[i]["Date"].v
                 + SlotHour(R.rows[i][HourSlotCol]) * TicksPerHour)
       ELSE NaT

\* The field a timestamp is written as in the datetime column.
WrittenAs(ts) == IF ts.k = "ts" THEN [k |-> "dtstr", v |-> ts.v] ELSE Txt

\* The datetime table of the same instants and flow columns as the Date +
\* hour-slot table R.
CombinedTwin(R) ==
  LET keep == (R.cols \ {"Date", HourSlotCol}) \cup {"datetime"}
  IN  [cols |-> keep,
       rows |-> [i \in 1..Len(R.rows) |->
                   [c \in keep |->
                      IF c = "datetime" THEN WrittenAs(RawInstant(R, i))
                      ELSE R.rows[i][c]]]]

\* The table T without the columns S.
Without(T, S) ==
  [cols |-> T.cols \ S,
   rows |-> [i \in 1..Len(T.rows) |-> [c \in T.cols \ S |-> T.rows[i][c]]]]

DateHourRaw == ~HasDatetime /\ HasDateAndHour

\* No raw row stands for an instant.
NoRowResolves == \A i \in RawRows : RawInstant(raw, i) = NaT

\* Timestamp resolution completes and some row has a timestamp.
TimestampsResolve ==
  /\ HasDatetime \/ HasDateAndHour
  /\ ~NoRowResolves
  /\ HasDatetime \/ \A i \in RawRows : raw.rows[i][HourSlotCol].k # "txt"

\* sum of column c over a sequence of rows
RECURSIVE ColumnTotal(_, _)
ColumnTotal(rows, c) ==
  IF rows = <<>> THEN 0 ELSE Head(rows)[c].v + ColumnTotal(Tail(rows), c)

RECURSIVE TimedTotal(_, _)
\* sum of column c over the rows that have a timestamp
TimedTotal(rows, c) ==
  IF rows = <<>> THEN 0
  ELSE (IF Head(rows)["datetime"].k = "ts" THEN Head(rows)[c].v ELSE 0)
         + TimedTotal(Tail(rows), c)

-----------------------------------------------------------------------------
(* C1.  In every row of a table load_data returns, and for every partner   *)
(* whose export and import columns are both in the raw table, net_<partner> *)
(* is |export| - |import| of that row, whatever the signs of the two.      *)
C1_SignNeutralNet ==
  Loaded =>
    \A code \in PartnerCodes :
      BothRawCols(code) =>
        /\ NetName(code) \in df.table.cols
        /\ \A i \in RawRows :
             df.table.rows[i][NetName(code)]
               = Num(Magnitude(raw.rows[i][partner_configs[code][1]])
                       - Magnitude(raw.rows[i][partner_configs[code][2]]))

\* export 100, import -40 gives 60
C1_Witness ==
  /\ Loaded
  /\ BothRawCols("GBR")
  /\ \E i \in RawRows :
       /\ raw.rows[i][GBe] = Num(1000)
       /\ raw.rows[i][GBi] = Num(-400)
       /\ df.table.rows[i]["net_GBR"] = Num(600)

(* C2.  In every row of a table load_data returns, net_total is the sum of *)
(* the net_<partner> values of that row.                                   *)
C2_TotalIsSumOfNets ==
  Loaded =>
    \A i \in 1..Len(df.table.rows) :
      df.table.rows[i]["net_total"]
        = Num(SumCells(df.table.rows[i],
                       {NetName(code) : code \in PartnerCodes} \cap df.table.cols))

\* a row with several partners' nets, whose total is none of them
C2_Witness ==
  /\ Loaded
  /\ Cardinality({code \in PartnerCodes : NetName(code) \in df.table.cols}) >= 3
  /\ OldNetCols \cap raw.cols = {}
  /\ \A code \in PartnerCodes :
       NetName(code) \in df.table.cols =>
         df.table.rows[1]["net_total"] # df.table.rows[1][NetName(code)]

(* C3.  Columns of the raw table named net_... never influence load_data:  *)
(* its outcome (the table, or the failure) is the outcome for the raw      *)
(* table without them.                                                     *)
C3_OldNetColumnsIgnored == Ran => df = load_data(StripNet(raw))

\* a table loaded from a file that held net_GBR and net_total
C3_Witness ==
  /\ Loaded
  /\ OldNetCols \subseteq raw.cols
  /\ BothRawCols("GBR")
  /\ df.table.rows[1]["net_total"] # OldNetField

(* C4.  Aggregation additivity.  As claimed: the sum of net_total over    *)
(* the rows of aggregate(T, granularity) is the sum of net_total over the  *)
(* rows of the table T passed in, for every granularity.                   *)
C4_AdditivityAllRows ==
  pc = "aggregated" =>
    ColumnTotal(agg.rows, "net_total") = ColumnTotal(arg.rows, "net_total")

(* C4, amended.  The sum of net_total over the rows of aggregate(T,        *)
(* granularity) is the sum of net_total over the rows of T that have a     *)
(* timestamp, for every granularity.                                       *)
C4_AdditivityTimedRows ==
  pc = "aggregated" =>
    ColumnTotal(agg.rows, "net_total") = TimedTotal(arg.rows, "net_total")

\* two rows of different instants summed into one weekly bucket
C4_Witness ==
  /\ pc = "aggregated"
  /\ freq_arg = "W"
  /\ Len(agg.rows) = 1
  /\ \E i, j \in 1..Len(arg.rows) :
       /\ arg.rows[i]["datetime"].k = "ts"
       /\ arg.rows[j]["datetime"].k = "ts"
       /\ arg.rows[i]["datetime"].v < arg.rows[j]["datetime"].v
       /\ arg.rows[i]["net_total"].v # arg.rows[j]["net_total"].v
       /\ agg.rows[1]["net_total"].v
            = arg.rows[i]["net_total"].v + arg.rows[j]["net_total"].v

(* C5.  Timestamp schema equivalence.  As claimed, of the tables that     *)
(* load: the table loaded from a Date + hour-slot table is identical to    *)
(* the one loaded from the datetime table with the same instants and flow  *)
(* columns.                                                                *)
C5_SchemaEquivalence ==
  (Loaded /\ DateHourRaw) => df = load_data(CombinedTwin(raw))

(* C5, amended.  A Date + hour-slot table and the datetime table with the  *)
(* same instants and flow columns give the same outcome of load_data but   *)
(* for the raw Date and hour-slot columns, which the table loaded from the *)
(* first keeps (Date parsed); and but for a Date + hour-slot table holding *)
(* a non-numeric hour-slot field, whose load fails in the conversion.      *)
C5_SchemaEquivalenceButRawColumns ==
  (Ran /\ DateHourRaw) =>
    IF \E i \in RawRows : raw.rows[i][HourSlotCol].k = "txt"
    THEN df.status = "ValueError"
    ELSE /\ df.status = load_data(CombinedTwin(raw)).status
         /\ Without(df.table, {"Date", HourSlotCol})
              = load_data(CombinedTwin(raw)).table
         /\ Loaded =>
              /\ {"Date", HourSlotCol} \subseteq df.table.cols
              /\ \A i \in RawRows :
                   df.table.rows[i][HourSlotCol] = raw.rows[i][HourSlotCol]

\* a Date + hour-slot table loaded, an hour-slot of 24 among its rows
C5_Witness ==
  /\ Loaded
  /\ DateHourRaw
  /\ \E i \in RawRows :
       /\ raw.rows[i][HourSlotCol] = Num(240)
       /\ df.table.rows[i]["hour"] = IntCell(23)

(* C6.  One row per timestamp.  As claimed: no two rows of a table         *)
(* load_data returns carry the same timestamp.                             *)
C6_OneRowPerTimestamp ==
  Loaded =>
    \A i, j \in 1..Len(df.table.rows) :
      (i # j /\ df.table.rows[i]["datetime"].k = "ts")
        => df.table.rows[i]["datetime"] # df.table.rows[j]["datetime"]

(* C6, amended.  A table load_data returns has one row per raw row, and no *)
(* two of its rows carry the same timestamp unless their raw rows stand    *)
(* for the same instant (the same fields, or hour-slots that default or    *)
(* clamp to the same hour).                                                *)
C6_OneRowPerRawRow ==
  Loaded =>
    /\ Len(df.table.rows) = Len(raw.rows)
    /\ \A i, j \in RawRows :
         (i # j /\ df.table.rows[i]["datetime"].k = "ts"
            /\ RawInstant(raw, i) # RawInstant(raw, j))
           => df.table.rows[i]["datetime"] # df.table.rows[j]["datetime"]

\* two rows of one date whose hour-slots, missing and 24, stay apart
C6_Witness ==
  /\ Loaded
  /\ DateHourRaw
  /\ Len(df.table.rows) = 2
  /\ raw.rows[1][HourSlotCol] = NA
  /\ raw.rows[2][HourSlotCol] = Num(240)
  /\ df.table.rows[1]["datetime"].k = "ts"
  /\ df.table.rows[2]["datetime"].k = "ts"
  /\ df.table.rows[1]["datetime"] # df.table.rows[2]["datetime"]

(* C7.  Row-local coercion failures never abort a load: whatever the      *)
(* hour-slot and flow fields hold, load_data returns a table or fails for  *)
(* one of the three schema-level reasons (no timestamp schema, no          *)
(* timestamp resolved, no partner flow data).                              *)
C7_RowLocalNeverAborts ==
  Ran => df.status \in {"ok", "SchemaError", "TimestampError", "NoFlowData"}

(* C8.  Timestamp resolution follows a fixed priority: a datetime column   *)
(* alone is used when there is one; else Date and the hour-slot column     *)
(* when both are there; in every other case load_data fails with the       *)
(* schema error and returns no table, whatever the flow columns.           *)
C8_SchemaPriority ==
  Ran =>
    /\ df.status = "SchemaError" <=> (~HasDatetime /\ ~HasDateAndHour)
    /\ df.status = "SchemaError" => df.table = NoTable
    /\ HasDatetime =>
         /\ df.status # "ValueError"
         /\ Loaded =>
              \A i \in RawRows :
                df.table.rows[i]["datetime"]
                  = (IF raw.rows[i]["datetime"].k = "dtstr"
                     THEN Ts(raw.rows[i]["datetime"].v) ELSE NaT)
    /\ (~HasDatetime /\ HasDateAndHour /\ Loaded) =>
         \A i \in RawRows : df.table.rows[i]["datetime"] = RawInstant(raw, i)

\* Date without the hour-slot column, both GBR flow columns: the schema error
C8_Witness ==
  /\ df.status = "SchemaError"
  /\ "Date" \in raw.cols
  /\ HourSlotCol \notin raw.cols
  /\ BothRawCols("GBR")
  /\ Len(raw.rows) = 1

\* C8, a second case reached: all three timestamp columns, the datetime
\* column decides
C8_WitnessPriority ==
  /\ Loaded
  /\ HasDatetime
  /\ HasDateAndHour
  /\ raw.rows[1]["Date"] = Txt
  /\ raw.rows[1][HourSlotCol] = Txt
  /\ df.table.rows[1]["datetime"].k = "ts"

(* C9.  If a timestamp schema is present but no row resolves to a          *)
(* timestamp (a table of no rows included), load_data fails with the       *)
(* timestamp-resolution error and returns no table, whatever the flow      *)
(* columns.                                                                *)
C9_NoTimestampFails ==
  (Ran /\ (HasDatetime \/ HasDateAndHour) /\ NoRowResolves) =>
    (df.status = "TimestampError" /\ df.table = NoTable)

(* C10.  If timestamps resolve but no configured partner has both its      *)
(* export and its import column, load_data fails with the no-flow-data     *)
(* error and returns no table, also when the raw file held net_ columns.   *)
C10_NoPartnerFails ==
  (Ran /\ TimestampsResolve /\ \A code \in PartnerCodes : ~BothRawCols(code)) =>
    (df.status = "NoFlowData" /\ df.table = NoTable)

\* old net_ columns and the GBR export column alone: no flow data
C10_Witness ==
  /\ df.status = "NoFlowData"
  /\ OldNetCols \subseteq raw.cols
  /\ GBe \in raw.cols
  /\ GBi \notin raw.cols

(* C11.  In a table load_data returns, net_<partner> is a column if and    *)
(* only if the partner is configured and both its export and its import    *)
(* column are in the raw table; a partner lacking either has no net column *)
(* (not a zero-filled one) and adds nothing to net_total.                  *)
C11_NetColumnIffBothRawColumns ==
  Loaded =>
    /\ \A code \in PartnerCodes :
         NetName(code) \in df.table.cols <=> BothRawCols(code)
    /\ \A c \in df.table.cols :
         (\E s \in NameTails : c = "net_" \o s)
           => (c = "net_total" \/ \E code \in PartnerCodes : c = NetName(code))
    /\ \A i \in RawRows :
         df.table.rows[i]["net_total"]
           = Num(SumCells([code \in PartnerCodes |->
                             Num(Magnitude(raw.rows[i][partner_configs[code][1]])
                                   - Magnitude(raw.rows[i][partner_configs[code][2]]))],
                          {code \in PartnerCodes : BothRawCols(code)}))

\* the CWE/Core import column missing, its export column and an old net_GBR
\* there: no net_CWE/Core, and net_GBR recomputed
C11_Witness ==
  /\ Loaded
  /\ CWe \in raw.cols
  /\ CWi \notin raw.cols
  /\ raw.rows[1][CWe] = Num(1000)
  /\ BothRawCols("GBR")
  /\ "net_CWE/Core" \notin df.table.cols
  /\ "net_GBR" \in df.table.cols
  /\ df.table.rows[1]["net_total"] = df.table.rows[1]["net_GBR"]

-----------------------------------------------------------------------------
(* Buckets, stated on the calendar. *)

AggRows == 1..Len(agg.rows)
ArgRows == 1..Len(arg.rows)
TimedArgRows == {i \in ArgRows : arg.rows[i]["datetime"].k = "ts"}

\* The length of the bucket that starts at instant t.
WidthFrom(t, f) ==
  CASE f = "H" -> TicksPerHour
    [] f = "D" -> TicksPerDay
    [] f = "W" -> 7 * TicksPerDay
    [] f = "M" -> 31 * TicksPerDay

\* Day d is the last day of its month.
IsMonthEnd(d) == d = DecemberEnd \/ d = JanuaryEnd

\* Days d and e are in the same month.
SameMonth(d, e) == (d <= DecemberEnd) <=> (e <= DecemberEnd)

\* Instant t is in the bucket that resample labels l: the hour or the day
\* starting at l, the Monday-to-Sunday week whose Sunday starts at l, the
\* month whose last day starts at l.
InLabelled(t, l, f) ==
  CASE f = "H" -> l <= t /\ t < l + TicksPerHour
    [] f = "D" -> l <= t /\ t < l + TicksPerDay
    [] f = "W" -> l - 6 * TicksPerDay <= t /\ t < l + TicksPerDay
    [] f = "M" -> SameMonth(t \div TicksPerDay, l \div TicksPerDay)

\* l is a label of granularity f.
IsLabel(l, f) ==
  CASE f = "H" -> l % TicksPerHour = 0
    [] f = "D" -> l % TicksPerDay = 0
    [] f = "W" -> l % TicksPerDay = 0 /\ (l \div TicksPerDay) % 7 = 6
    [] f = "M" -> l % TicksPerDay = 0 /\ IsMonthEnd(l \div TicksPerDay)

RECURSIVE TotalIn(_, _, _, _)
\* sum of column c over the rows whose timestamp is in the bucket labelled l
TotalIn(rows, c, l, f) ==
  IF rows = <<>> THEN 0
  ELSE (IF Head(rows)["datetime"].k = "ts"
           /\ InLabelled(Head(rows)["datetime"].v, l, f)
        THEN Head(rows)[c].v ELSE 0)
         + TotalIn(Tail(rows), c, l, f)

\* The date, month and year of aggregated row n are those of its timestamp.
FieldsOfTimestamp(n) ==
  LET d == agg.rows[n]["datetime"].v \div TicksPerDay
  IN  /\ agg.rows[n]["date"] = [k |-> "date", v |-> d]
      /\ agg.rows[n]["year"]
           = [k |-> "int", v |-> IF d <= DecemberEnd THEN 2022 ELSE 2023]
      /\ agg.rows[n]["month"]
           = [k |-> "period", v |-> IF d <= DecemberEnd THEN 202212 ELSE 202301]

(* C12.  Bucket start.  As claimed: for every granularity the timestamp of *)
(* an aggregated row is the start of its bucket, so that every input row   *)
(* with a timestamp lies in the hour, day, week or month that starts at    *)
(* the timestamp of an aggregated row, at or after it.                     *)
C12_TimestampIsBucketStart ==
  pc = "aggregated" =>
    \A i \in TimedArgRows :
      \E n \in AggRows :
        /\ agg.rows[n]["datetime"].v <= arg.rows[i]["datetime"].v
        /\ arg.rows[i]["datetime"].v
             < agg.rows[n]["datetime"].v
                 + WidthFrom(agg.rows[n]["datetime"].v, freq_arg)

(* C12, amended.  The timestamp of an aggregated row is the start of its   *)
(* bucket for H and D (start of the hour, of the day); for W it is         *)
(* midnight of the Sunday that ends the Monday-to-Sunday week it sums, and *)
(* for M midnight of the last day of the month it sums, so input rows lie  *)
(* at or after the timestamp for H and D only.  Its date, month and year   *)
(* are those of that timestamp.                                            *)
C12_TimestampIsBucketLabel ==
  pc = "aggregated" =>
    /\ \A n \in AggRows :
         /\ agg.rows[n]["datetime"].k = "ts"
         /\ IsLabel(agg.rows[n]["datetime"].v, freq_arg)
         /\ FieldsOfTimestamp(n)
         /\ agg.rows[n]["net_total"]
              = Num(TotalIn(arg.rows, "net_total",
                            agg.rows[n]["datetime"].v, freq_arg))
    /\ \A i \in TimedArgRows :
         \E n \in AggRows :
           InLabelled(arg.rows[i]["datetime"].v,
                      agg.rows[n]["datetime"].v, freq_arg)

\* a Saturday 2022-12-31 row summed into the weekly bucket stamped Sunday
\* 2023-01-01
C12_Witness ==
  /\ pc = "aggregated"
  /\ freq_arg = "W"
  /\ \E i \in TimedArgRows :
       /\ arg.rows[i]["datetime"] = Ts(Tick(5, 23, 1))
       /\ agg.rows[1]["datetime"] = Ts(Tick(6, 0, 0))
       /\ agg.rows[1]["net_total"] = arg.rows[i]["net_total"]
       /\ agg.rows[1]["year"] = IntCell(2023)

(* C13.  aggregate is pure: after the call the table passed to it has the  *)
(* rows, columns and values it had when passed, and the second call of the *)
(* run, on the same table with the same granularity, returns the same      *)
(* table as the first.                                                     *)
C13_AggregatePure ==
  pc = "aggregated" =>
    /\ df_f # NoTable => df_f = arg
    /\ df_f = NoTable => df.table = arg
    /\ (df_f # NoTable /\ freq_arg = "M") => monthly = agg

\* a monthly aggregation of a filtered table that holds a missing flow value
\* and two rows summed into one bucket
C13_Witness ==
  /\ pc = "aggregated"
  /\ freq_arg = "M"
  /\ Len(arg.rows) = 2
  /\ Len(agg.rows) = 1
  /\ monthly = agg
  /\ df_f = arg
  /\ \E c \in AllFlowCols \cap arg.cols : arg.rows[1][c] = NA

(* C14.  The canonical table of the source is built at most once, the      *)
(* cache entry is the table load_data builds from the source at every      *)
(* later moment, and the table a run works from is still that entry after  *)
(* the filter, the aggregations and the analytics tab have run.            *)
C14_BuiltOnceNeverChanged ==
  /\ built <= 1
  /\ cache.status = "ok" => (built = 1 /\ cache = load_data(raw))
  /\ cache.status # "ok" => built = 0
  /\ pc \in {"loaded", "filtered", "aggregated"} => df = cache

\* a run whose table is the cache entry, after its analytics tab
\* wrote its columns on its copy
C14_Witness ==
  /\ pc = "aggregated"
  /\ built = 1
  /\ df = cache
  /\ "weekday" \in base.cols
  /\ "weekday" \notin cache.table.cols
  /\ Len(base.rows) > 0
  /\ Len(df_f.rows) < Len(cache.table.rows)

-----------------------------------------------------------------------------
\* The unit of a magnitude given in tenths of a MWh, by the claimed thresholds.
UnitOf(a) ==
  IF a < Tenths(1000) THEN "MWh"
  ELSE IF a < Tenths(1000000) THEN "GWh" ELSE "TWh"

\* How many tenths of a MWh one step of the shown number is worth.
StepOf(unit) ==
  CASE unit = "MWh" -> 10 [] unit = "GWh" -> 1000 [] unit = "TWh" -> 1000000

(* C15.  format_mwh takes its unit from |x| alone: MWh below 1000, GWh     *)
(* from 1000 and below 1000000, TWh from 1000000; the number shown is x in *)
(* that unit rounded to an integer (MWh) or to one decimal (GWh, TWh),     *)
(* with the sign of x; a missing value gives the placeholder; and -x gets  *)
(* the unit of x.                                                          *)
C15_UnitByMagnitude ==
  pc = "formatted" =>
    /\ kpi.k = "na" => shown = Placeholder
    /\ kpi.k = "num" =>
         /\ shown.unit = UnitOf(Abs(kpi.v))
         /\ 2 * Abs(StepOf(shown.unit) * shown.value - Abs(kpi.v))
              <= StepOf(shown.unit)
         /\ shown.neg = (kpi.v < 0)
         /\ format_mwh(Num(-kpi.v)).unit = shown.unit
    /\ kpi = Num(9990) => shown.unit = "MWh"
    /\ kpi \in {Num(10000), Num(9999990)} => shown.unit = "GWh"
    /\ kpi = Num(10000000) => shown.unit = "TWh"

\* -1000.0 MWh shown as -1.0 GWh
C15_Witness ==
  /\ pc = "formatted"
  /\ kpi = Num(-10000)
  /\ shown = [unit |-> "GWh", neg |-> TRUE, value |-> 10]

-----------------------------------------------------------------------------
(* C16.  In every table load_data returns, every number in a partner's     *)
(* export or import flow column is non-negative, whatever the signs in the *)
(* raw file.                                                               *)
C16_FlowsNonNegative ==
  Loaded =>
    \A code \in PartnerCodes :
      \A c \in {ExpCol(code), ImpCol(code)} \cap df.table.cols :
        \A i \in 1..Len(df.table.rows) :
          df.table.rows[i][c].k = "num" => df.table.rows[i][c].v >= 0

-----------------------------------------------------------------------------
DateHourSchema == Loaded /\ ~HasDatetime /\ HasDateAndHour

\* Row i of the loaded table carries the date of raw row i plus the hours of
\* its slot, and that hour as its hour field.
DatePlusSlot(i) ==
  /\ df.table.rows[i]["datetime"]
       = Ts(raw.rows[i]["Date"].v
              + SlotHour(raw.rows[i][HourSlotCol]) * TicksPerHour)
  /\ df.table.rows[i]["hour"] = IntCell(SlotHour(raw.rows[i][HourSlotCol]))

(* C17.  As claimed: in the Date + hour-slot schema the timestamp of each  *)
(* row is its parsed date plus h hours, h the integer part of the slot (0  *)
(* when missing) brought into 0..23, and the hour field of every row is in *)
(* 0..23.                                                                  *)
C17_HourOfEveryRow ==
  DateHourSchema =>
    \A i \in RawRows :
      /\ raw.rows[i]["Date"].k = "dtstr" => DatePlusSlot(i)
      /\ df.table.rows[i]["hour"].k = "int"
      /\ df.table.rows[i]["hour"].v \in 0..23

(* C17, amended.  In the Date + hour-slot schema the timestamp of each row *)
(* whose date parsed is that date plus h hours, h the integer part of the  *)
(* slot (0 when missing) brought into 0..23, and its hour field is h; a    *)
(* row whose date did not parse has a missing timestamp and a missing hour *)
(* field.                                                                  *)
C17_HourOfDatedRows ==
  DateHourSchema =>
    \A i \in RawRows :
      /\ raw.rows[i]["Date"].k = "dtstr" =>
           /\ DatePlusSlot(i)
           /\ df.table.rows[i]["hour"].v \in 0..23
      /\ raw.rows[i]["Date"].k # "dtstr" =>
           /\ df.table.rows[i]["datetime"] = NaT
           /\ df.table.rows[i]["hour"] = NA

\* slot 5.7 read as hour 5 beside a row whose date did not parse
C17_Witness ==
  /\ DateHourSchema
  /\ \E i, j \in RawRows :
       /\ raw.rows[i]["Date"] = DtStr(Tick(6, 0, 0))
       /\ raw.rows[i][HourSlotCol] = Num(57)
       /\ df.table.rows[i]["datetime"] = Ts(Tick(6, 5, 0))
       /\ df.table.rows[i]["hour"] = IntCell(5)
       /\ raw.rows[j]["Date"] = Txt
       /\ df.table.rows[j]["hour"] = NA

-----------------------------------------------------------------------------
\* The columns aggregate sums that net columns are.
NetColsOf(T) == {c \in T.cols : \E t \in NameTails : c = "net_" \o t}

(* C18.  A raw row whose timestamp does not parse is a row of the table    *)
(* load_data returns, with a missing timestamp and with its net values;    *)
(* aggregate leaves it so and sums it into no bucket: for every            *)
(* granularity each aggregated net value is the sum over the rows that     *)
(* have a timestamp in the bucket, and the buckets run from the first to   *)
(* the last row that has one.                                              *)
C18_UntimedRowKeptInNoBucket ==
  /\ Loaded =>
       /\ Len(df.table.rows) = Len(raw.rows)
       /\ \A i \in RawRows :
            RawInstant(raw, i) = NaT =>
              /\ df.table.rows[i]["datetime"] = NaT
              /\ df.table.rows[i]["net_total"].k = "num"
              /\ \A code \in PartnerCodes :
                   BothRawCols(code) =>
                     df.table.rows[i][NetName(code)]
                       = Num(Magnitude(raw.rows[i][partner_configs[code][1]])
                               - Magnitude(raw.rows[i][partner_configs[code][2]]))
  /\ (pc = "aggregated" /\ df_f = NoTable) =>
       /\ arg = df.table
       /\ df = cache
       /\ \A n \in AggRows :
            /\ \A c \in NetColsOf(arg) :
                 agg.rows[n][c]
                   = Num(TotalIn(arg.rows, c, agg.rows[n]["datetime"].v, freq_arg))
            /\ \E i \in TimedArgRows :
                 arg.rows[i]["datetime"].v <= agg.rows[n]["datetime"].v
                   \/ InLabelled(arg.rows[i]["datetime"].v,
                                 agg.rows[n]["datetime"].v, freq_arg)
       /\ TimedArgRows = {} => Len(agg.rows) = 0

\* a table of one row with a timestamp and one without, both with a net
\* value, aggregated into the one bucket of the first
C18_Witness ==
  /\ pc = "aggregated"
  /\ df_f = NoTable
  /\ Len(arg.rows) = 2
  /\ arg.rows[1]["datetime"] = NaT
  /\ raw.rows[1]["datetime"] = Txt
  /\ arg.rows[1]["net_total"] = Num(600)
  /\ arg.rows[2]["datetime"].k = "ts"
  /\ Len(agg.rows) = 1
  /\ agg.rows[1]["net_total"] = arg.rows[2]["net_total"]

====
